---- MODULE Spec2Model ----
(***************************************************************************)
(* A model of the data-quality agent: the three checks of                  *)
(* src/data_quality/checks.py, the assessment aggregator of                *)
(* src/reporting/report_generator.py with the remediation advisor, the     *)
(* agent tools of src/agent/reporting_tools.py, and the table search of    *)
(* src/retrieval/schema_indexer.py.                                        *)
(*                                                                         *)
(* Numbers with decimals are kept as integers: a relevance score or a      *)
(* distance is in hundredths (0.30 is 30), a null percentage is in         *)
(* hundredths of a percent (8.00% is 800).                                 *)
(***************************************************************************)
EXTENDS Integers, Sequences, FiniteSets, TLC

VARIABLES
    db,             \* the frame the data source holds during the call in progress
    reachable,      \* whether create_connector / connect / load_data succeed in it
    entry,          \* the entry point of the call in progress or completed
    pc,             \* "idle", "running", "complete", "raised", "tool_error"
    checks,         \* the list of check names of the call in progress
    idx,            \* position of its loop over checks (1-based)
    check_results,  \* the ordered dict check name -> result being collected
    assessment,     \* the assessment the caller holds (NoAssessment before)
    executed,       \* check name -> number of invocations of its function
    loads,          \* number of calls of load_data_by_id
    last_op,        \* name of the operation the last step executed
    last_output,    \* what the last render / save / tool call returned
    now,            \* the clock datetime.now() reads
    search          \* the last search_tables call: its inputs and its result

vars == <<db, reachable, entry, pc, checks, idx, check_results, assessment,
          executed, loads, last_op, last_output, now, search>>

-----------------------------------------------------------------------------
(* Bounds of the model.                                                    *)

MaxRows == 2
MaxChecks == 2

-----------------------------------------------------------------------------
(* Frames.  A frame is [rows, numeric, raises]: rows is a sequence of rows,*)
(* a row a tuple of one cell per column; numeric is the set of column      *)
(* positions of numeric dtype; raises is the set of checks whose pandas    *)
(* computation raises on this frame: drop_duplicates and describe on cells *)
(* that cannot be hashed, the null count on a column label held twice.     *)

DatasetId == "stage_sales.public.customers"

Columns == <<"A", "B">>

NaN == "NaN"

Placeholders == {"<NA>", "", "NULL", "null"}

RowValues == { <<"x", "a">>, <<"y", "NULL">>, <<NaN, "">> }

AvailableChecks == <<"duplicates", "null_values", "descriptive_stats">>

AvailableCheckNames == {AvailableChecks[i] : i \in 1..Len(AvailableChecks)}

CheckNames == AvailableCheckNames \cup {"row_count"}

SeqsUpTo(S, n) == UNION {[1..k -> S] : k \in 0..n}

Range(s) == {s[i] : i \in 1..Len(s)}

Frames ==
    { [rows |-> r, numeric |-> {}, raises |-> {}] : r \in SeqsUpTo(RowValues, MaxRows) }
    \cup
    { [rows |-> << <<"x", "a">> >>, numeric |-> {}, raises |-> x] :
        x \in {{"duplicates", "descriptive_stats"}, {"null_values"}} }

DummyData ==
    [rows |-> << <<"1", "a">>, <<"2", "b">>, <<"2", "b">>, <<"2", "b">>,
                 <<"3", "c">> >>,
     numeric |-> {1},
     raises |-> {}]

NumVal == [c \in {"1", "2", "3"} |-> IF c = "1" THEN 1 ELSE IF c = "2" THEN 2 ELSE 3]

-----------------------------------------------------------------------------
(* Python dicts that keep insertion order: a sequence of [name, result]    *)
(* with no name twice.  d[k] = v keeps the place of a key already there.   *)

EmptyDict == << >>

DictKeys(d) == [i \in 1..Len(d) |-> d[i].name]

DictHas(d, k) == \E i \in 1..Len(d) : d[i].name = k

DictGet(d, k) == d[CHOOSE i \in 1..Len(d) : d[i].name = k].result

DictSet(d, k, v) ==
    IF DictHas(d, k)
    THEN [i \in 1..Len(d) |-> IF d[i].name = k THEN [name |-> k, result |-> v] ELSE d[i]]
    ELSE Append(d, [name |-> k, result |-> v])

Get(r, f, default) == IF f \in DOMAIN r THEN r[f] ELSE default

-----------------------------------------------------------------------------
(* checks.py                                                               *)

load_data_by_id(frame, ok) == IF ok THEN frame ELSE DummyData

Returned(v) == [raised |-> FALSE, value |-> v]

Raised == [raised |-> TRUE]

DropDuplicates(rows) == Range(rows)

check_dataset_duplicates(frame, ok) ==
    LET df == load_data_by_id(frame, ok)
        total_rows == Len(df.rows)
        duplicate_numb == total_rows - Cardinality(DropDuplicates(df.rows))
    IN  IF "duplicates" \in df.raises
        THEN Raised
        ELSE Returned([dataset_id |-> DatasetId,
                       total_rows |-> total_rows,
                       duplicate_qty |-> duplicate_numb,
                       status |-> IF duplicate_numb = 0 THEN "success" ELSE "failure"])

\* A numpy integer, and what json.dumps(default=str) makes of it.
Int64(n) == [np |-> "int64", v |-> n]

Str(n) == [np |-> "str", v |-> n]

\* count() without the four replace calls: only NaN is null.
IsNaN(cell) == cell = NaN

IsNull(cell) == cell = NaN \/ cell \in Placeholders

\* Python's round(n / d * 100, 2) in hundredths of a percent: the nearest
\* integer to 10000 n / d, a tie going to the even one.
RoundPct(n, d) ==
    LET q == (10000 * n) \div d
        r == (10000 * n) % d
    IN  IF 2 * r > d THEN q + 1
        ELSE IF 2 * r < d THEN q
        ELSE IF q % 2 = 0 THEN q ELSE q + 1

\* list.sort(key = null_percentage, reverse = True): stable.
RECURSIVE SortByPctDesc(_)
SortByPctDesc(s) ==
    IF Len(s) <= 1 THEN s
    ELSE LET rest == SortByPctDesc(SubSeq(s, 1, Len(s) - 1))
             x == s[Len(s)]
             k == Cardinality({i \in 1..Len(rest) :
                                 rest[i].null_percentage >= x.null_percentage})
         IN  SubSeq(rest, 1, k) \o <<x>> \o SubSeq(rest, k + 1, Len(rest))

RECURSIVE NullAnalysis(_, _)
NullAnalysis(rows, c) ==
    IF c > Len(Columns) THEN << >>
    ELSE LET total_rows == Len(rows)
             defined_values_count ==
                 Cardinality({i \in 1..total_rows : ~IsNull(rows[i][c])})
             null_count == total_rows - defined_values_count
         IN  (IF null_count > 0
              THEN << [column_name |-> Columns[c],
                       null_count |-> Int64(null_count),
                       null_percentage |-> RoundPct(null_count, total_rows)] >>
              ELSE << >>)
             \o NullAnalysis(rows, c + 1)

check_dataset_null_values(frame, ok) ==
    LET df == load_data_by_id(frame, ok)
        null_analysis == SortByPctDesc(NullAnalysis(df.rows, 1))
    IN  IF "null_values" \in df.raises
        THEN Returned([dataset_id |-> DatasetId,
                       error |-> "exception",
                       status |-> "failure"])
        ELSE Returned([dataset_id |-> DatasetId,
                       total_rows |-> Len(df.rows),
                       total_columns |-> Len(Columns),
                       columns_with_nulls |-> Len(null_analysis),
                       null_analysis |-> null_analysis,
                       status |-> "success"])

Isqrt(v) == CHOOSE s \in 0..v : s * s <= v /\ (s + 1) * (s + 1) > v

RECURSIVE SumSeq(_)
SumSeq(s) == IF s = << >> THEN 0 ELSE s[1] + SumSeq(Tail(s))

\* One column of df.describe(include='all'), as the fields the advisor and
\* the reports read: count, unique and freq of a categorical column (unique
\* is a Python int, which the conversion loop turns into a string); count,
\* mean and std (hundredths) of a numeric one.  NaN becomes None: no field.
Describe(rows, c, numeric) ==
    LET present == SelectSeq([i \in 1..Len(rows) |-> rows[i][c]],
                             LAMBDA x : x # NaN)
        n == Len(present)
        values == Range(present)
        Freq(x) == Cardinality({i \in 1..n : present[i] = x})
    IN  IF c \in numeric
        THEN LET xs == [i \in 1..n |-> NumVal[present[i]]]
                 sum == SumSeq(xs)
                 sq == SumSeq([i \in 1..n |-> (n * xs[i] - sum) * (n * xs[i] - sum)])
             IN  IF n = 0 THEN [count |-> 0]
                 ELSE IF n = 1 THEN [count |-> 1, mean |-> 100 * sum]
                 ELSE [count |-> n,
                       mean |-> (100 * sum) \div n,
                       std |-> Isqrt((10000 * sq) \div (n * n * (n - 1)))]
        ELSE IF n = 0 THEN [count |-> 0, unique |-> Str(0)]
        ELSE [count |-> n,
              unique |-> Str(Cardinality(values)),
              freq |-> CHOOSE f \in 1..n :
                          /\ \E x \in values : Freq(x) = f
                          /\ \A x \in values : Freq(x) <= f]

check_dataset_descriptive_stats(frame, ok) ==
    LET df == load_data_by_id(frame, ok)
    IN  IF "descriptive_stats" \in df.raises
        THEN Returned([dataset_id |-> DatasetId,
                       error |-> "exception",
                       status |-> "failure"])
        ELSE Returned([dataset_id |-> DatasetId,
                       descriptive_stats |->
                           [c \in 1..Len(Columns) |->
                               [name |-> Columns[c],
                                result |-> Describe(df.rows, c, df.numeric)]],
                       status |-> "success"])

\* available_checks[check_name](dataset_id, connector_type=connector_type)
CallCheck(check_name, frame, ok) ==
    IF check_name = "duplicates" THEN check_dataset_duplicates(frame, ok)
    ELSE IF check_name = "null_values" THEN check_dataset_null_values(frame, ok)
    ELSE check_dataset_descriptive_stats(frame, ok)

-----------------------------------------------------------------------------
(* remediation_advisor.py.  A recommendation is [title, priority, detail]; *)
(* detail holds what the description interpolates.                         *)

Abs(n) == IF n < 0 THEN -n ELSE n

Take(s, n) == SubSeq(s, 1, IF Len(s) < n THEN Len(s) ELSE n)

RECURSIVE _analyze_statistical_outliers(_)
_analyze_statistical_outliers(stats) ==
    IF stats = << >> THEN << >>
    ELSE LET column_name == stats[1].name
             column_stats == stats[1].result
             variability ==
                 IF /\ "mean" \in DOMAIN column_stats
                    /\ "std" \in DOMAIN column_stats
                    /\ column_stats.mean # 0
                    /\ column_stats.std > 2 * Abs(column_stats.mean)
                 THEN << [title |-> "Investigate High Variability",
                          priority |-> "Low",
                          detail |-> [column |-> column_name]] >>
                 ELSE << >>
             cardinality ==
                 IF /\ "unique" \in DOMAIN column_stats
                    /\ "count" \in DOMAIN column_stats
                    /\ column_stats.count > 0
                    /\ 100 * column_stats.unique.v > 95 * column_stats.count
                    /\ column_stats.unique.v > 100
                 THEN << [title |-> "High Cardinality",
                          priority |-> "Low",
                          detail |-> [column |-> column_name,
                                      unique |-> column_stats.unique.v]] >>
                 ELSE << >>
         IN  variability \o cardinality \o _analyze_statistical_outliers(Tail(stats))

_is_check_passed(check_result) ==
    IF Get(check_result, "status", "") # "success" THEN FALSE
    ELSE IF "duplicate_qty" \in DOMAIN check_result THEN check_result.duplicate_qty = 0
    ELSE IF "columns_with_nulls" \in DOMAIN check_result
         THEN check_result.columns_with_nulls = 0
    ELSE TRUE

PriorityOrder(p) == IF p = "High" THEN 1 ELSE IF p = "Medium" THEN 2
                    ELSE IF p = "Low" THEN 3 ELSE 4

\* A sort by priority that puts a recommendation before those of its own
\* priority: ordered, not stable.
RECURSIVE SortByPriorityUnstable(_)
SortByPriorityUnstable(s) ==
    IF Len(s) <= 1 THEN s
    ELSE LET rest == SortByPriorityUnstable(SubSeq(s, 1, Len(s) - 1))
             x == s[Len(s)]
             k == Cardinality({i \in 1..Len(rest) :
                     PriorityOrder(rest[i].priority) < PriorityOrder(x.priority)})
         IN  SubSeq(rest, 1, k) \o <<x>> \o SubSeq(rest, k + 1, Len(rest))

\* recommendations.sort(key = priority_order): stable.
RECURSIVE SortByPriority(_)
SortByPriority(s) ==
    IF Len(s) <= 1 THEN s
    ELSE LET rest == SortByPriority(SubSeq(s, 1, Len(s) - 1))
             x == s[Len(s)]
             k == Cardinality({i \in 1..Len(rest) :
                     PriorityOrder(rest[i].priority) <= PriorityOrder(x.priority)})
         IN  SubSeq(rest, 1, k) \o <<x>> \o SubSeq(rest, k + 1, Len(rest))

DuplicateRecommendations(results) ==
    IF ~DictHas(results, "duplicates") THEN << >>
    ELSE LET duplicate_result == DictGet(results, "duplicates")
             duplicate_qty == Get(duplicate_result, "duplicate_qty", 0)
         IN  IF Get(duplicate_result, "status", "") = "success" /\ duplicate_qty > 0
             THEN << [title |-> "Remove Duplicate Records",
                      priority |-> IF duplicate_qty > 1000 THEN "High" ELSE "Medium",
                      detail |-> [duplicate_qty |-> duplicate_qty]] >>
             ELSE << >>

NullRecommendations(results) ==
    IF ~DictHas(results, "null_values") THEN << >>
    ELSE LET null_result == DictGet(results, "null_values")
             columns_with_nulls == Get(null_result, "columns_with_nulls", 0)
             null_analysis == Get(null_result, "null_analysis", << >>)
             high_null_columns ==
                 SelectSeq(null_analysis, LAMBDA col : col.null_percentage > 2000)
             medium_null_columns ==
                 SelectSeq(null_analysis,
                           LAMBDA col : 500 < col.null_percentage
                                        /\ col.null_percentage <= 2000)
             Names(cols) == [i \in 1..Len(Take(cols, 3)) |-> cols[i].column_name]
         IN  IF Get(null_result, "status", "") = "success" /\ columns_with_nulls > 0
             THEN (IF high_null_columns # << >>
                   THEN << [title |-> "Address High Null Value Columns",
                            priority |-> "High",
                            detail |-> [columns |-> Names(high_null_columns)]] >>
                   ELSE << >>)
                  \o
                  (IF medium_null_columns # << >>
                   THEN << [title |-> "Implement Null Handling Strategy",
                            priority |-> "Medium",
                            detail |-> [columns |-> Names(medium_null_columns)]] >>
                   ELSE << >>)
                  \o
                  (IF Len(null_analysis) > 5
                   THEN << [title |-> "Comprehensive Data Governance",
                            priority |-> "Medium",
                            detail |-> [columns_count |-> Len(null_analysis)]] >>
                   ELSE << >>)
             ELSE << >>

StatsRecommendations(results) ==
    IF ~DictHas(results, "descriptive_stats") THEN << >>
    ELSE LET stats_result == DictGet(results, "descriptive_stats")
             stats == Get(stats_result, "descriptive_stats", << >>)
         IN  IF Get(stats_result, "status", "") = "success"
             THEN _analyze_statistical_outliers(stats)
                  \o
                  (IF Len(stats) > 10
                   THEN << [title |-> "Data Documentation and Profiling",
                            priority |-> "Low",
                            detail |-> [columns_count |-> Len(stats)]] >>
                   ELSE << >>)
             ELSE << >>

ErrorRecommendations(results) ==
    LET error_checks ==
            DictKeys(SelectSeq(results,
                               LAMBDA e : Get(e.result, "status", "") = "error"))
    IN  IF error_checks # << >>
        THEN << [title |-> "Fix Check Execution Errors",
                 priority |-> "High",
                 detail |-> [checks |-> error_checks]] >>
        ELSE << >>

AdvisorPassedChecks(results) ==
    Len(SelectSeq(results,
                  LAMBDA e : Get(e.result, "status", "") = "success"
                             /\ _is_check_passed(e.result)))

\* pass_rate = passed / total; pass_rate < 0.5 is 2 passed < total and
\* pass_rate < 0.8 is 5 passed < 4 total.
PassRateRecommendations(results) ==
    LET total_checks == Len(results)
        passed_checks == AdvisorPassedChecks(results)
        detail == [passed |-> passed_checks, total |-> total_checks]
    IN  IF total_checks > 0 /\ 2 * passed_checks < total_checks
        THEN << [title |-> "Establish Data Quality Framework",
                 priority |-> "High", detail |-> detail] >>
        ELSE IF total_checks > 0 /\ 5 * passed_checks < 4 * total_checks
        THEN << [title |-> "Enhance Data Quality Processes",
                 priority |-> "Medium", detail |-> detail] >>
        ELSE << >>

generate_recommendations(results) ==
    SortByPriority(DuplicateRecommendations(results)
                   \o NullRecommendations(results)
                   \o StatsRecommendations(results)
                   \o ErrorRecommendations(results)
                   \o PassRateRecommendations(results))

-----------------------------------------------------------------------------
(* report_generator.py                                                     *)

\* The bucket of one entry of check_results in the summary loop.
\* The classification with an elif for 'error' in place of the final
\* else: a result of status 'failure' then falls in no bucket.
BucketWithoutElse(check_name, result) ==
    IF result.status = "success"
    THEN IF check_name = "duplicates" /\ Get(result, "duplicate_qty", 0) = 0
         THEN "passed_checks"
         ELSE IF check_name = "null_values" /\ Get(result, "columns_with_nulls", 0) = 0
         THEN "passed_checks"
         ELSE IF check_name = "descriptive_stats"
         THEN "passed_checks"
         ELSE "failed_checks"
    ELSE IF result.status = "error"
    THEN "error_checks"
    ELSE "uncounted"

\* The bucket of one entry of check_results.
Bucket(check_name, result) ==
    IF result.status = "success"
    THEN IF check_name = "duplicates" /\ Get(result, "duplicate_qty", 0) = 0
         THEN "passed_checks"
         ELSE IF check_name = "null_values" /\ Get(result, "columns_with_nulls", 0) = 0
         THEN "passed_checks"
         ELSE IF check_name = "descriptive_stats"
         THEN "passed_checks"
         ELSE "failed_checks"
    ELSE IF result.status = "failure"
    THEN "failed_checks"
    ELSE "error_checks"

CountBucket(results, b) ==
    Cardinality({i \in 1..Len(results) : Bucket(results[i].name, results[i].result) = b})

Summarize(results) ==
    [passed_checks |-> CountBucket(results, "passed_checks"),
     failed_checks |-> CountBucket(results, "failed_checks"),
     error_checks |-> CountBucket(results, "error_checks")]

create_assessment_from_results(results, timestamp) ==
    [metadata |-> [dataset_id |-> DatasetId,
                   connector_type |-> "postgres",
                   timestamp |-> timestamp,
                   checks_requested |-> DictKeys(results),
                   total_checks |-> Len(results)],
     check_results |-> results,
     summary |-> Summarize(results),
     recommendations |-> generate_recommendations(results)]

NoAssessment == [none |-> TRUE]

-----------------------------------------------------------------------------
(* report_templates.py and the json report.  A report is kept as the       *)
(* figures it shows; formatting a string with "," raises ValueError.       *)

\* json.loads(json.dumps(assessment, default=str)): a numpy integer comes
\* back as a string, everything else as it was.
JsonResult(result) ==
    IF "null_analysis" \in DOMAIN result
    THEN [result EXCEPT !.null_analysis =
            [i \in 1..Len(@) |-> [@[i] EXCEPT !.null_count = Str(@.v)]]]
    ELSE result

JsonRoundTrip(a) ==
    [a EXCEPT !.check_results =
        [i \in 1..Len(@) |-> [name |-> @[i].name, result |-> JsonResult(@[i].result)]]]

\* The null analysis lines if "," could format a Python int only.
NullLinesRaiseOnInt64(result) ==
    /\ Get(result, "columns_with_nulls", 0) > 0
    /\ Len(Get(result, "null_analysis", << >>)) > 0

\* f"{null_count:,}" of every line of the detailed null analysis.
NullLinesRaise(result) ==
    /\ Get(result, "columns_with_nulls", 0) > 0
    /\ \E i \in 1..Len(Get(result, "null_analysis", << >>)) :
          result.null_analysis[i].null_count.np = "str"

\* f"{null_pct:.1f}": a percentage in hundredths printed with one decimal,
\* the nearest tenth and the even one from half way, again in hundredths.
OneDecimal(pct) ==
    LET tenths == pct \div 10
        rest == pct % 10
    IN  IF rest > 5 \/ (rest = 5 /\ tenths % 2 = 1)
        THEN (tenths + 1) * 10
        ELSE tenths * 10

NullLines(result) ==
    IF Get(result, "columns_with_nulls", 0) > 0
    THEN [i \in 1..Len(Get(result, "null_analysis", << >>)) |->
            [column_name |-> result.null_analysis[i].column_name,
             null_count |-> result.null_analysis[i].null_count.v,
             null_percentage |-> OneDecimal(result.null_analysis[i].null_percentage)]]
    ELSE << >>

DuplicateFigures(result) ==
    [status_text |-> IF Get(result, "duplicate_qty", 0) = 0 THEN "PASS" ELSE "FAIL",
     total_rows |-> Get(result, "total_rows", 0),
     duplicate_qty |-> Get(result, "duplicate_qty", 0)]

NullFigures(result) ==
    [status_text |-> IF Get(result, "columns_with_nulls", 0) = 0 THEN "PASS" ELSE "FAIL",
     total_rows |-> Get(result, "total_rows", 0),
     columns_with_nulls |-> Get(result, "columns_with_nulls", 0),
     total_columns |-> Get(result, "total_columns", 0),
     null_lines |-> NullLines(result)]

StatsFigures(result) ==
    [status_text |-> "PASS",
     columns_count |-> Len(Get(result, "descriptive_stats", << >>)),
     table |-> Get(result, "descriptive_stats", << >>)]

ErrorFigures(result) ==
    [status_text |-> "ERROR", error |-> Get(result, "error", "Unknown error")]

MarkdownSection(check_name, result) ==
    [check |-> check_name,
     emoji |-> IF result.status = "success" THEN "pass" ELSE "fail",
     body |-> IF result.status = "success"
              THEN IF check_name = "duplicates" THEN DuplicateFigures(result)
                   ELSE IF check_name = "null_values" THEN NullFigures(result)
                   ELSE IF check_name = "descriptive_stats" THEN StatsFigures(result)
                   ELSE [none |-> TRUE]
              ELSE ErrorFigures(result)]

MarkdownSectionRaises(check_name, result) ==
    result.status = "success" /\ check_name = "null_values" /\ NullLinesRaise(result)

HtmlStatusClass(check_name, result) ==
    IF result.status = "success"
    THEN IF check_name = "duplicates" /\ Get(result, "duplicate_qty", 0) = 0
         THEN "status-pass"
         ELSE IF check_name = "null_values" /\ Get(result, "columns_with_nulls", 0) = 0
         THEN "status-pass"
         ELSE IF check_name = "descriptive_stats"
         THEN "status-pass"
         ELSE "status-fail"
    ELSE IF result.status = "failure"
    THEN "status-fail"
    ELSE "status-error"

HtmlSection(check_name, result) ==
    [check |-> check_name,
     emoji |-> HtmlStatusClass(check_name, result),
     body |-> IF result.status = "success"
                 \/ (result.status = "failure" /\ check_name = "duplicates")
              THEN IF check_name = "duplicates" THEN DuplicateFigures(result)
                   ELSE IF check_name = "null_values" /\ result.status = "success"
                   THEN NullFigures(result)
                   ELSE IF check_name = "descriptive_stats" THEN StatsFigures(result)
                   ELSE [none |-> TRUE]
              ELSE ErrorFigures(result)]

HtmlSectionRaises(check_name, result) ==
    result.status = "success" /\ check_name = "null_values" /\ NullLinesRaise(result)

ReportHeader(a) ==
    [dataset_id |-> a.metadata.dataset_id,
     assessment_date |-> a.metadata.timestamp,
     total_checks |-> a.metadata.total_checks,
     passed |-> a.summary.passed_checks,
     failed |-> a.summary.failed_checks,
     errors |-> a.summary.error_checks]

RenderRaised == [raised |-> TRUE, error |-> "ValueError"]

render_markdown_template(a, clock) ==
    IF \E i \in 1..Len(a.check_results) :
          MarkdownSectionRaises(a.check_results[i].name, a.check_results[i].result)
    THEN RenderRaised
    ELSE Returned([format |-> "markdown",
                   header |-> ReportHeader(a),
                   sections |-> [i \in 1..Len(a.check_results) |->
                       MarkdownSection(a.check_results[i].name, a.check_results[i].result)],
                   recommendations |-> a.recommendations,
                   generation_time |-> clock])

render_html_template(a, clock) ==
    IF \E i \in 1..Len(a.check_results) :
          HtmlSectionRaises(a.check_results[i].name, a.check_results[i].result)
    THEN RenderRaised
    ELSE Returned([format |-> "html",
                   header |-> ReportHeader(a),
                   sections |-> [i \in 1..Len(a.check_results) |->
                       HtmlSection(a.check_results[i].name, a.check_results[i].result)],
                   recommendations |-> a.recommendations,
                   generation_time |-> clock])

generate_json_report(a) ==
    Returned([format |-> "json", content |-> JsonRoundTrip(a)])

Render(a, format, clock) ==
    IF format = "markdown" THEN render_markdown_template(a, clock)
    ELSE IF format = "html" THEN render_html_template(a, clock)
    ELSE generate_json_report(a)

KnownFormats == {"markdown", "html", "json"}

\* save_report: the formats written, in order, up to the first render that
\* raises; an unknown format is skipped.
RECURSIVE save_report(_, _, _)
save_report(a, formats, clock) ==
    IF formats = << >> THEN [raised |-> FALSE, saved_files |-> << >>]
    ELSE IF Head(formats) \notin KnownFormats THEN save_report(a, Tail(formats), clock)
    ELSE IF Render(a, Head(formats), clock).raised
         THEN [raised |-> TRUE, saved_files |-> << >>]
         ELSE LET rest == save_report(a, Tail(formats), clock)
              IN  [raised |-> rest.raised,
                   saved_files |-> <<Head(formats)>> \o rest.saved_files]

-----------------------------------------------------------------------------
(* The results a caller may hand to create_assessment_from_results: any    *)
(* map of check names to results that carry a status.                      *)

ResultSamples(check_name) ==
    IF check_name = "duplicates"
    THEN { [status |-> "success", total_rows |-> 5, duplicate_qty |-> 0],
           [status |-> "success", total_rows |-> 5, duplicate_qty |-> 2],
           [status |-> "failure", total_rows |-> 5, duplicate_qty |-> 2],
           [status |-> "error", error |-> "timeout"] }
    ELSE IF check_name = "null_values"
    THEN { [status |-> "success", total_rows |-> 4, total_columns |-> 2,
            columns_with_nulls |-> 0, null_analysis |-> << >>],
           [status |-> "success", total_rows |-> 4, total_columns |-> 2,
            columns_with_nulls |-> 2,
            null_analysis |-> << [column_name |-> "B", null_count |-> Int64(1),
                                  null_percentage |-> 2500],
                                 [column_name |-> "A", null_count |-> Int64(1),
                                  null_percentage |-> 800] >>],
           [status |-> "error", error |-> "timeout"] }
    ELSE IF check_name = "descriptive_stats"
    THEN { [status |-> "success",
            descriptive_stats |->
                << [name |-> "A", result |-> [count |-> 5, mean |-> 100, std |-> 300]],
                   [name |-> "B", result |-> [count |-> 150, unique |-> Str(150),
                                              freq |-> 1]] >>],
           [status |-> "failure", error |-> "exception"] }
    ELSE { [status |-> "success"], [status |-> "error"] }

Entries == UNION { { [name |-> n, result |-> r] : r \in ResultSamples(n) } : n \in CheckNames }

ResultDicts ==
    { d \in SeqsUpTo(Entries, MaxChecks) :
        \A i, j \in 1..Len(d) : i # j => d[i].name # d[j].name }

CheckLists == SeqsUpTo(CheckNames, MaxChecks) \cup {AvailableChecks}

FormatLists == { <<"markdown", "html", "json">>, <<"html">>, <<"pdf", "json">> }

-----------------------------------------------------------------------------
(* The state machine.  db, reachable, checks and idx belong to the call in *)
(* progress and are gone when it returns.  Two instants are enough to tell *)
(* a stored timestamp from a fresh datetime.now().                         *)

NoFrame == [rows |-> << >>, numeric |-> {}, raises |-> {}]

NoOutput == [status |-> "none"]

NoSearch == [none |-> TRUE]

\* What the caller keeps of a return value: how the call ended and the
\* files it wrote.
Brief(out) ==
    IF "status" \in DOMAIN out
    THEN IF "saved_files" \in DOMAIN out
         THEN [status |-> out.status, saved_files |-> out.saved_files]
         ELSE [status |-> out.status]
    ELSE IF out.raised
    THEN IF "saved_files" \in DOMAIN out
         THEN [status |-> "raised", saved_files |-> out.saved_files]
         ELSE [status |-> "raised"]
    ELSE IF "saved_files" \in DOMAIN out
         THEN [status |-> "returned", saved_files |-> out.saved_files]
         ELSE [status |-> "returned"]

Init ==
    /\ db = NoFrame
    /\ reachable = TRUE
    /\ entry = "none"
    /\ pc = "idle"
    /\ checks = << >>
    /\ idx = 1
    /\ check_results = EmptyDict
    /\ assessment = NoAssessment
    /\ executed = [n \in AvailableCheckNames |-> 0]
    /\ loads = 0
    /\ last_op = "init"
    /\ last_output = NoOutput
    /\ now = 0
    /\ search = NoSearch

\* Time passes between the assessment and a later call.
Tick ==
    /\ pc = "complete"
    /\ now = 0
    /\ now' = 1
    /\ last_op' = "tick"
    /\ UNCHANGED <<db, reachable, entry, pc, checks, idx, check_results, assessment,
                   executed, loads, last_output, search>>

\* The data source of a call: reachable and holding a frame, or not.
Sources ==
    { [frame |-> f, ok |-> TRUE] : f \in Frames } \cup { [frame |-> NoFrame, ok |-> FALSE] }

StartRun(op, lists) ==
    /\ pc = "idle"
    /\ \E source \in Sources, names \in lists :
          /\ db' = source.frame
          /\ reachable' = source.ok
          /\ checks' = names
    /\ entry' = op
    /\ pc' = "running"
    /\ idx' = 1
    /\ check_results' = EmptyDict
    /\ last_op' = op
    /\ UNCHANGED <<assessment, executed, loads, last_output, now, search>>

\* run_full_assessment(dataset_id, connector_type, checks) is called;
\* checks = None stands for the three available checks.
StartRunFullAssessment == StartRun("run_full_assessment", CheckLists)

\* run_comprehensive_dq_assessment(dataset_id, connector_type, checks_to_run)
\* is called; checks_to_run.split(',') has at least one name.
StartRunComprehensive ==
    StartRun("run_comprehensive_dq_assessment", CheckLists \ {<< >>})

\* One turn of the loop over the check names.
SkipUnknownCheck ==
    /\ pc = "running"
    /\ idx <= Len(checks)
    /\ checks[idx] \notin AvailableCheckNames
    /\ idx' = idx + 1
    /\ last_op' = entry
    /\ UNCHANGED <<db, reachable, entry, pc, checks, check_results, assessment,
                   executed, loads, last_output, now, search>>

\* A list of results in place of the dict: every execution adds an entry.
StoreResultInList(results, check_name, value) ==
    Append(results, [name |-> check_name, result |-> value])

\* check_results[check_name] = ...
StoreResult(results, check_name, value) == DictSet(results, check_name, value)

CheckReturns ==
    /\ pc = "running"
    /\ idx <= Len(checks)
    /\ checks[idx] \in AvailableCheckNames
    /\ ~CallCheck(checks[idx], db, reachable).raised
    /\ check_results' =
          StoreResult(check_results, checks[idx], CallCheck(checks[idx], db, reachable).value)
    /\ executed' = [executed EXCEPT ![checks[idx]] = @ + 1]
    /\ loads' = loads + 1
    /\ idx' = idx + 1
    /\ last_op' = entry
    /\ UNCHANGED <<db, reachable, entry, pc, checks, assessment, last_output, now, search>>

\* The check raises: run_full_assessment lets the exception through, the
\* tool returns {'dataset_id', 'error', 'status': 'error'}.
CheckRaises ==
    /\ pc = "running"
    /\ idx <= Len(checks)
    /\ checks[idx] \in AvailableCheckNames
    /\ CallCheck(checks[idx], db, reachable).raised
    /\ executed' = [executed EXCEPT ![checks[idx]] = @ + 1]
    /\ loads' = loads + 1
    /\ pc' = IF entry = "run_full_assessment" THEN "raised" ELSE "tool_error"
    /\ last_output' = IF entry = "run_full_assessment" THEN Brief(Raised)
                      ELSE Brief([dataset_id |-> DatasetId, error |-> "exception",
                                  status |-> "error"])
    /\ last_op' = entry
    /\ UNCHANGED <<db, reachable, entry, checks, idx, check_results, assessment,
                   now, search>>

ToolSummary(a) ==
    [total_checks |-> a.summary.passed_checks + a.summary.failed_checks
                      + a.summary.error_checks,
     passed_checks |-> a.summary.passed_checks,
     failed_checks |-> a.summary.failed_checks,
     error_checks |-> a.summary.error_checks]

\* What the entry point returns once the loop is over.
RunResponse(op, a) ==
    IF op = "run_full_assessment"
    THEN Returned(a)
    ELSE [assessment_results |-> a,
          assessment_results_json |-> JsonRoundTrip(a),
          summary |-> ToolSummary(a),
          status |-> "success"]

\* The loop is over: create_assessment_from_results(check_results, ...) and
\* the return.
FinishRun ==
    /\ pc = "running"
    /\ idx > Len(checks)
    /\ assessment' = create_assessment_from_results(check_results, now)
    /\ pc' = "complete"
    /\ last_output' = Brief(RunResponse(entry, assessment'))
    /\ last_op' = entry
    /\ db' = NoFrame
    /\ reachable' = TRUE
    /\ checks' = << >>
    /\ idx' = 1
    /\ UNCHANGED <<entry, check_results, executed, loads, now, search>>

\* create_assessment_from_results(check_results, ...) on results the caller
\* computed before, or on the results of the assessment it holds.
CreateAssessmentFromResults ==
    /\ \/ /\ pc = "idle"
          /\ \E results \in ResultDicts : check_results' = results
          /\ entry' = "create_assessment_from_results"
       \/ /\ pc = "complete"
          /\ check_results' = assessment.check_results
          /\ entry' = entry
    /\ assessment' = create_assessment_from_results(check_results', now)
    /\ pc' = "complete"
    /\ last_op' = "create_assessment_from_results"
    /\ last_output' = Brief(Returned(assessment'))
    /\ UNCHANGED <<db, reachable, checks, idx, executed, loads, now, search>>

\* generate_markdown_report / generate_html_report / generate_json_report
\* of the generator, on the assessment the caller holds.
GenerateReport(format, op) ==
    /\ pc = "complete"
    /\ last_output' = Brief(Render(assessment, format, now))
    /\ last_op' = op
    /\ UNCHANGED <<db, reachable, entry, pc, checks, idx, check_results, assessment,
                   executed, loads, now, search>>

GenerateMarkdownReport == GenerateReport("markdown", "generate_markdown_report")

GenerateHtmlReport == GenerateReport("html", "generate_html_report")

GenerateJsonReport == GenerateReport("json", "generate_json_report")

SaveReport ==
    /\ pc = "complete"
    /\ \E formats \in FormatLists :
          last_output' = Brief(save_report(assessment, formats, now))
    /\ last_op' = "save_report"
    /\ UNCHANGED <<db, reachable, entry, pc, checks, idx, check_results, assessment,
                   executed, loads, now, search>>

\* _create_summary_report of reporting_tools.py.
SummaryLine(check_name, result) ==
    [check |-> check_name,
     body |-> IF result.status = "success"
              THEN IF check_name = "duplicates"
                   THEN [status_text |-> IF Get(result, "duplicate_qty", 0) = 0
                                         THEN "PASS" ELSE "FAIL",
                         duplicate_qty |-> Get(result, "duplicate_qty", 0)]
                   ELSE IF check_name = "null_values"
                   THEN [status_text |-> IF Get(result, "columns_with_nulls", 0) = 0
                                         THEN "PASS" ELSE "FAIL",
                         columns_with_nulls |-> Get(result, "columns_with_nulls", 0)]
                   ELSE IF check_name = "descriptive_stats"
                   THEN [status_text |-> "PASS",
                         columns_count |-> Len(Get(result, "descriptive_stats", << >>))]
                   ELSE [none |-> TRUE]
              ELSE ErrorFigures(result)]

_create_summary_report(a) ==
    Returned([format |-> "summary",
              header |-> ReportHeader(a),
              sections |-> [i \in 1..Len(a.check_results) |->
                  SummaryLine(a.check_results[i].name, a.check_results[i].result)],
              recommendations |-> Take(a.recommendations, 3)])

ToolRender(a, output_format, clock) ==
    IF output_format = "html" THEN render_html_template(a, clock)
    ELSE IF output_format = "summary" THEN _create_summary_report(a)
    ELSE render_markdown_template(a, clock)

ToolError == [error |-> "exception", status |-> "error"]

ReportResponse(a, output_format, clock) ==
    IF ToolRender(a, output_format, clock).raised
    THEN ToolError
    ELSE [dataset_id |-> a.metadata.dataset_id,
          report_format |-> output_format,
          report_content |-> ToolRender(a, output_format, clock).value,
          summary |-> ToolSummary(a),
          recommendations_count |-> Len(a.recommendations),
          status |-> "success"]

SaveResponse(a, formats, clock) ==
    IF save_report(a, formats, clock).raised
    THEN ToolError
    ELSE [dataset_id |-> a.metadata.dataset_id,
          saved_files |-> save_report(a, formats, clock).saved_files,
          summary |-> ToolSummary(a),
          recommendations_count |-> Len(a.recommendations),
          status |-> "success"]

OutputFormats == {"markdown", "html", "summary"}

\* generate_comprehensive_dq_report runs the three checks itself, in the
\* order of available_checks, up to the first that raises.
RECURSIVE RunAll(_, _, _)
RunAll(names, frame, ok) ==
    IF names = << >> THEN [raised |-> FALSE, results |-> EmptyDict, ran |-> << >>]
    ELSE LET rest == RunAll(SubSeq(names, 1, Len(names) - 1), frame, ok)
             name == names[Len(names)]
             r == CallCheck(name, frame, ok)
         IN  IF rest.raised THEN rest
             ELSE IF r.raised
             THEN [raised |-> TRUE, results |-> rest.results, ran |-> Append(rest.ran, name)]
             ELSE [raised |-> FALSE,
                   results |-> DictSet(rest.results, name, r.value),
                   ran |-> Append(rest.ran, name)]

Count(s, x) == Cardinality({i \in 1..Len(s) : s[i] = x})

\* generate_report_from_assessment_results written as
\* generate_comprehensive_dq_report is: the checks run again.
GenerateReportRerunningChecks ==
    /\ pc = "complete"
    /\ \E source \in Sources, output_format \in OutputFormats :
          LET run == RunAll(AvailableChecks, source.frame, source.ok)
          IN  /\ executed' =
                    [n \in AvailableCheckNames |->
                        IF executed[n] + Count(run.ran, n) > 3 THEN 3
                        ELSE executed[n] + Count(run.ran, n)]
              /\ loads' = IF loads + Len(run.ran) > 9 THEN 9 ELSE loads + Len(run.ran)
              /\ last_output' =
                    IF run.raised
                    THEN Brief([dataset_id |-> DatasetId, error |-> "exception",
                                status |-> "error"])
                    ELSE Brief(ReportResponse(
                                 create_assessment_from_results(run.results, now),
                                 output_format, now))
    /\ last_op' = "generate_report_from_assessment_results"
    /\ UNCHANGED <<db, reachable, entry, pc, checks, idx, check_results, assessment,
                   now, search>>

\* generate_report_from_assessment_results(assessment_results_json, format):
\* the assessment is parsed from the JSON the caller kept.
GenerateReportFromAssessmentResults ==
    /\ pc = "complete"
    /\ \E output_format \in OutputFormats :
          last_output' = Brief(ReportResponse(JsonRoundTrip(assessment), output_format, now))
    /\ last_op' = "generate_report_from_assessment_results"
    /\ UNCHANGED <<db, reachable, entry, pc, checks, idx, check_results, assessment,
                   executed, loads, now, search>>

SaveReportFromAssessmentResults ==
    /\ pc = "complete"
    /\ \E formats \in FormatLists :
          last_output' = Brief(SaveResponse(JsonRoundTrip(assessment), formats, now))
    /\ last_op' = "save_report_from_assessment_results"
    /\ UNCHANGED <<db, reachable, entry, pc, checks, idx, check_results, assessment,
                   executed, loads, now, search>>

AssessNext ==
    \/ Tick
    \/ StartRunFullAssessment
    \/ StartRunComprehensive
    \/ SkipUnknownCheck
    \/ CheckReturns
    \/ CheckRaises
    \/ FinishRun
    \/ CreateAssessmentFromResults
    \/ GenerateMarkdownReport
    \/ GenerateHtmlReport
    \/ GenerateJsonReport
    \/ SaveReport
    \/ GenerateReportFromAssessmentResults
    \/ SaveReportFromAssessmentResults

Spec == Init /\ [][AssessNext]_vars

-----------------------------------------------------------------------------
(* schema_indexer.py: the table search.  A text is the sequence of its     *)
(* characters, so that lower(), split() and the substring test are the     *)
(* ones of the code.  Distances and relevance scores are in hundredths.    *)

MaxWords == 2
MaxTopK == 2

UpperCase == <<"A", "B", "C", "D", "E", "F", "G", "H", "I", "J", "K", "L", "M", "N", "O", "P",
    "Q", "R", "S", "T", "U", "V", "W", "X", "Y", "Z">>

LowerCase == <<"a", "b", "c", "d", "e", "f", "g", "h", "i", "j", "k", "l", "m", "n", "o", "p",
    "q", "r", "s", "t", "u", "v", "w", "x", "y", "z">>

ToLower ==
    [c \in Range(UpperCase) |-> LowerCase[CHOOSE i \in 1..Len(UpperCase) : UpperCase[i] = c]]

LowerChar(c) == IF c \in DOMAIN ToLower THEN ToLower[c] ELSE c

\* str.lower()
Lower(s) == [i \in 1..Len(s) |-> LowerChar(s[i])]

\* t in s
Contains(s, t) == \E i \in 0..(Len(s) - Len(t)) : SubSeq(s, i + 1, i + Len(t)) = t

\* s.split() after the characters of seps are replaced by blanks: the
\* non-empty pieces between separators.
RECURSIVE Split(_, _)
Split(s, seps) ==
    IF s = << >> THEN << >>
    ELSE IF s[1] \in seps THEN Split(Tail(s), seps)
    ELSE LET k == CHOOSE n \in 1..Len(s) :
                      /\ \A j \in 1..n : s[j] \notin seps
                      /\ n = Len(s) \/ s[n + 1] \in seps
         IN  <<SubSeq(s, 1, k)>> \o Split(SubSeq(s, k + 1, Len(s)), seps)

RECURSIVE Join(_)
Join(words) ==
    IF words = << >> THEN << >>
    ELSE IF Len(words) = 1 THEN words[1]
    ELSE words[1] \o <<" ">> \o Join(Tail(words))

Postgres == <<"p", "o", "s", "t", "g", "r", "e", "s">>

Postgresql == <<"p", "o", "s", "t", "g", "r", "e", "s", "q", "l">>

Snowflake == <<"s", "n", "o", "w", "f", "l", "a", "k", "e">>

StagingMarkers == << <<"s", "t", "a", "g", "e">>, <<"s", "t", "a", "g", "i", "n", "g">>,
                     <<"d", "e", "v">>, <<"t", "e", "s", "t">> >>

StagingKeywords == << <<"s", "t", "a", "g", "e">>, <<"s", "t", "a", "g", "i", "n", "g">>,
                      <<"d", "e", "v">>,
                      <<"d", "e", "v", "e", "l", "o", "p", "m", "e", "n", "t">>,
                      <<"t", "e", "s", "t">> >>

ProductionMarkers == << <<"p", "r", "o", "d">>,
                        <<"p", "r", "o", "d", "u", "c", "t", "i", "o", "n">>,
                        <<"l", "i", "v", "e">> >>

ProductionKeywords == ProductionMarkers

\* The connector sections of config/settings.yaml, when the file exists.
NoSettings == << >>

Settings ==
    { NoSettings,
      << [connector_type |-> "postgres",
          database |-> <<"s", "t", "a", "g", "e", "_", "s", "a", "l", "e", "s">>],
         [connector_type |-> "snowflake",
          database |-> <<"P", "R", "O", "D", "_", "S", "A", "L", "E", "S">>] >> }

\* The metadata of the indexed table documents.
OrdersDoc ==
    [table_name |-> <<"o", "r", "d", "e", "r", "s">>,
     full_name |-> <<"s", "t", "a", "g", "e", "_", "s", "a", "l", "e", "s", ".", "p", "u", "b",
         "l", "i", "c", ".", "o", "r", "d", "e", "r", "s">>,
     connector_type |-> "postgres"]

CustomersDoc ==
    [table_name |-> <<"C", "U", "S", "T", "O", "M", "E", "R", "S">>,
     full_name |-> <<"P", "R", "O", "D", "_", "S", "A", "L", "E", "S", ".", "P", "U", "B", "L",
         "I", "C", ".", "C", "U", "S", "T", "O", "M", "E", "R", "S">>,
     connector_type |-> "snowflake"]

LineItemsDoc ==
    [table_name |-> <<"l", "i", "n", "e", "_", "i", "t", "e", "m", "s">>,
     full_name |-> <<"s", "t", "a", "g", "e", "_", "s", "a", "l", "e", "s", ".", "p", "u", "b",
         "l", "i", "c", ".", "l", "i", "n", "e", "_", "i", "t", "e", "m", "s">>,
     connector_type |-> "postgres"]

\* A table of a second staging database, indexed through the other connector.
EventsDoc ==
    [table_name |-> <<"E", "V", "E", "N", "T", "S">>,
     full_name |-> <<"S", "T", "A", "G", "E", "_", "A", "R", "C", "H", "I", "V", "E", ".", "P",
         "U", "B", "L", "I", "C", ".", "E", "V", "E", "N", "T", "S">>,
     connector_type |-> "snowflake"]

\* client.get_collection raises when the collection does not exist.
NoCollection == [exists |-> FALSE, docs |-> << >>]

Collections ==
    { NoCollection }
    \cup
    { [exists |-> TRUE, docs |-> docs] :
        docs \in { << >>,
                   <<OrdersDoc, CustomersDoc>>,
                   <<OrdersDoc, EventsDoc>>,
                   <<CustomersDoc, OrdersDoc, LineItemsDoc>> } }

QueryWords ==
    { <<"O", "r", "d", "e", "r", "s">>,
      <<"i", "n">>,
      <<"p", "o", "s", "t", "g", "r", "e", "s">>,
      <<"s", "t", "a", "g", "e">> }

Queries == { Join(words) : words \in SeqsUpTo(QueryWords, MaxWords) }

Distances == {15, 60, 140}

MinRelevances == {-50, 0, 20}

\* mappings[key] = connector_type for every key of keys, in order.
RECURSIVE SetAll(_, _, _)
SetAll(mappings, keys, connector_type) ==
    IF keys = << >> THEN mappings
    ELSE SetAll(DictSet(mappings, keys[1], connector_type), Tail(keys), connector_type)

\* The words of a database name that are long enough to be mapped.
RECURSIVE LongWords(_)
LongWords(words) ==
    IF words = << >> THEN << >>
    ELSE IF Len(words[1]) >= 3 THEN <<words[1]>> \o LongWords(Tail(words))
    ELSE LongWords(Tail(words))

AnyIn(keywords, text) == \E i \in 1..Len(keywords) : Contains(text, keywords[i])

\* The mappings one connector section of the configuration adds.
ConfigMappings(mappings, section) ==
    LET db_lower == Lower(section.database)
        named == DictSet(mappings, db_lower, section.connector_type)
        environment ==
            IF AnyIn(StagingMarkers, db_lower)
            THEN SetAll(named, StagingKeywords, section.connector_type)
            ELSE IF AnyIn(ProductionMarkers, db_lower)
            THEN SetAll(named, ProductionKeywords, section.connector_type)
            ELSE named
    IN  IF section.database = << >> THEN mappings
        ELSE SetAll(environment, LongWords(Split(db_lower, {"_", " "})),
                    section.connector_type)

\* The mappings the metadata of one indexed table adds.
MetadataMappings(mappings, metadata) ==
    LET full_name == metadata.full_name
        database_name == SubSeq(full_name, 1,
                                (CHOOSE i \in 1..Len(full_name) :
                                    /\ full_name[i] = "."
                                    /\ \A j \in 1..(i - 1) : full_name[j] # ".") - 1)
    IN  IF metadata.connector_type # "" /\ full_name # << >> /\ Contains(full_name, <<".">>)
        THEN SetAll(DictSet(mappings, Lower(database_name), metadata.connector_type),
                    LongWords(Split(Lower(database_name), {"_", " "})),
                    metadata.connector_type)
        ELSE mappings

RECURSIVE FoldMappings(_, _, _)
FoldMappings(mappings, items, from_config) ==
    IF items = << >> THEN mappings
    ELSE FoldMappings(IF from_config THEN ConfigMappings(mappings, items[1])
                      ELSE MetadataMappings(mappings, items[1]),
                      Tail(items), from_config)

_get_database_mappings(settings, collection) ==
    IF ~collection.exists
    THEN FoldMappings(EmptyDict, settings, TRUE)
    ELSE FoldMappings(FoldMappings(EmptyDict, settings, TRUE), collection.docs, FALSE)

None == "None"

\* The connector of the first element of keys that is a key of mappings.
FirstMapped(keys, mappings) ==
    IF \E i \in 1..Len(keys) : DictHas(mappings, keys[i])
    THEN DictGet(mappings, keys[CHOOSE i \in 1..Len(keys) :
                                   /\ DictHas(mappings, keys[i])
                                   /\ \A j \in 1..(i - 1) : ~DictHas(mappings, keys[j])])
    ELSE None

\* The connector of the first key of mappings that occurs in the text.
FirstContained(mappings, text) ==
    IF \E i \in 1..Len(mappings) : Contains(text, mappings[i].name)
    THEN mappings[CHOOSE i \in 1..Len(mappings) :
                     /\ Contains(text, mappings[i].name)
                     /\ \A j \in 1..(i - 1) : ~Contains(text, mappings[j].name)].result
    ELSE None

\* The database preference search_tables detects in the query.
PreferredConnector(query, database_mappings) ==
    LET query_lower == Lower(query)
        by_word == FirstMapped(Split(query_lower, {"_", " "}), database_mappings)
        by_part == FirstContained(database_mappings, query_lower)
    IN  IF Contains(query_lower, Postgres) \/ Contains(query_lower, Postgresql)
        THEN "postgres"
        ELSE IF Contains(query_lower, Snowflake) THEN "snowflake"
        ELSE IF by_word # None THEN by_word
        ELSE IF by_part # None THEN by_part
        ELSE IF AnyIn(StagingKeywords, query_lower)
        THEN FirstMapped(StagingKeywords, database_mappings)
        ELSE IF AnyIn(ProductionKeywords, query_lower)
        THEN FirstMapped(ProductionKeywords, database_mappings)
        ELSE None

ConnectorBoost == 30
TableNameBoost == 20

Min(a, b) == IF a < b THEN a ELSE b

Max(a, b) == IF a > b THEN a ELSE b

\* table_name_boost: one boost for every query word found in the table name.
TableNameBoostOf(query, metadata) ==
    LET table_name == Lower(metadata.table_name)
        query_words == Split(Lower(query), {" "})
    IN  TableNameBoost * Cardinality({ i \in 1..Len(query_words) :
                                         /\ Len(query_words[i]) >= 3
                                         /\ Contains(table_name, query_words[i]) })

\* The two boosts added with no cap at 1.0.
BoostedRelevanceUncapped(base_relevance, connector_match, table_name_boost) ==
    (IF connector_match THEN base_relevance + ConnectorBoost ELSE base_relevance)
        + table_name_boost

\* boosted_relevance of one candidate.
BoostedRelevance(base_relevance, connector_match, table_name_boost) ==
    Min((IF connector_match THEN Min(base_relevance + ConnectorBoost, 100)
         ELSE base_relevance) + table_name_boost, 100)

\* The entry of relevant_tables for the i-th result of the vector store.
Hit(i, metadata, distance, query, preferred_connector) ==
    [rank |-> i,
     table_name |-> metadata.table_name,
     full_name |-> metadata.full_name,
     relevance_score |->
         BoostedRelevance(100 - distance,
                          preferred_connector # None
                              /\ metadata.connector_type = preferred_connector,
                          TableNameBoostOf(query, metadata)),
     connector_type |-> metadata.connector_type,
     original_relevance |-> 100 - distance,
     boosted |-> (preferred_connector = metadata.connector_type),
     table_boost |-> TableNameBoostOf(query, metadata),
     detected_db |-> preferred_connector]

\* collection.query: the n_results documents nearest to the query, nearest
\* first; documents at the same distance keep the order of the collection.
RECURSIVE SortByDistance(_)
SortByDistance(s) ==
    IF Len(s) <= 1 THEN s
    ELSE LET rest == SortByDistance(SubSeq(s, 1, Len(s) - 1))
             x == s[Len(s)]
             k == Cardinality({i \in 1..Len(rest) : rest[i].distance <= x.distance})
         IN  SubSeq(rest, 1, k) \o <<x>> \o SubSeq(rest, k + 1, Len(rest))

CollectionQuery(collection, distance, n_results) ==
    Take(SortByDistance([i \in 1..Len(collection.docs) |->
                            [metadata |-> collection.docs[i], distance |-> distance[i]]]),
         n_results)

\* relevant_tables.sort(key=relevance_score, reverse=True): stable.
RECURSIVE SortByRelevanceDesc(_)
SortByRelevanceDesc(s) ==
    IF Len(s) <= 1 THEN s
    ELSE LET rest == SortByRelevanceDesc(SubSeq(s, 1, Len(s) - 1))
             x == s[Len(s)]
             k == Cardinality({i \in 1..Len(rest) :
                                 rest[i].relevance_score >= x.relevance_score})
         IN  SubSeq(rest, 1, k) \o <<x>> \o SubSeq(rest, k + 1, Len(rest))

RECURSIVE FilterByRelevance(_, _)
FilterByRelevance(s, min_relevance) ==
    IF s = << >> THEN << >>
    ELSE IF s[1].relevance_score >= min_relevance
    THEN <<s[1]>> \o FilterByRelevance(Tail(s), min_relevance)
    ELSE FilterByRelevance(Tail(s), min_relevance)

\* relevant_tables after the sort by boosted relevance.
RelevantTables(settings, collection, distance, query, top_k) ==
    LET preferred_connector ==
            PreferredConnector(query, _get_database_mappings(settings, collection))
        results == CollectionQuery(collection, distance, Max(top_k * 2, 6))
    IN  SortByRelevanceDesc([i \in 1..Len(results) |->
            Hit(i, results[i].metadata, results[i].distance, query, preferred_connector)])

\* The threshold and the cut to top_k, the hits keeping the ranks the
\* vector store gave them.
FinalResultsStaleRanks(relevant_tables, top_k, min_relevance) ==
    Take(FilterByRelevance(relevant_tables, min_relevance), top_k)

\* The threshold, the cut to top_k and the new ranks.
FinalResults(relevant_tables, top_k, min_relevance) ==
    LET final_results == Take(FilterByRelevance(relevant_tables, min_relevance), top_k)
    IN  [i \in 1..Len(final_results) |-> [final_results[i] EXCEPT !.rank = i]]

\* search_tables(query, top_k, min_relevance): what it leaves in
\* relevant_tables and what it returns.
search_tables(settings, collection, distance, query, top_k, min_relevance) ==
    IF ~collection.exists
    THEN [relevant_tables |-> << >>, results |-> << >>]
    ELSE LET relevant_tables ==
                 RelevantTables(settings, collection, distance, query, top_k)
         IN  [relevant_tables |-> relevant_tables,
              results |-> FinalResults(relevant_tables, top_k, min_relevance)]

-----------------------------------------------------------------------------
(* The search over an index that was built before: the configuration and   *)
(* the collection are those of the deployment, every call brings its query,*)
(* its limits and the distances the vector store measures for it.          *)

NoCall == [none |-> TRUE]

InitSearch ==
    /\ db = NoFrame
    /\ reachable = TRUE
    /\ entry = "none"
    /\ pc = "idle"
    /\ checks = << >>
    /\ idx = 1
    /\ check_results = EmptyDict
    /\ assessment = NoAssessment
    /\ executed = [n \in AvailableCheckNames |-> 0]
    /\ loads = 0
    /\ last_op = "init"
    /\ last_output = NoOutput
    /\ now = 0
    /\ search \in { [settings |-> settings, collection |-> collection, call |-> NoCall] :
                      settings \in Settings, collection \in Collections }

\* One call of search_tables; the call reads the index and leaves it as it is.
SearchTables ==
    /\ search.call = NoCall
    /\ \E query \in Queries, top_k \in 1..MaxTopK, min_relevance \in MinRelevances,
          distance \in [1..Len(search.collection.docs) -> Distances] :
          LET found == search_tables(search.settings, search.collection, distance,
                                     query, top_k, min_relevance)
          IN  search' =
                  [search EXCEPT !.call =
                      [query |-> query,
                       top_k |-> top_k,
                       min_relevance |-> min_relevance,
                       relevant_tables |-> found.relevant_tables,
                       results |-> found.results]]
    /\ last_op' = "search_tables"
    /\ UNCHANGED <<db, reachable, entry, pc, checks, idx, check_results, assessment,
                   executed, loads, last_output, now>>

-----------------------------------------------------------------------------
(* smart_planner.py: run_smart_dq_check.  The agent the tables are handed  *)
(* to is outside the model; what is kept is what it is given.              *)

AllMatchesTopK == 10
MinRelevanceThreshold == 20

\* run_smart_dq_check without the branch for an empty result: the agent is
\* invoked on whatever tables were found, none included.
SmartOutputAgentAlways(all_matches, relevant_tables) ==
    [kind |-> "agent",
     tables_context |->
         [i \in 1..Len(relevant_tables) |->
             [rank |-> relevant_tables[i].rank,
              connector_type |-> relevant_tables[i].connector_type,
              full_name |-> relevant_tables[i].full_name,
              relevance_score |-> relevant_tables[i].relevance_score]]]

\* The value run_smart_dq_check returns, from the two result lists.
SmartOutput(all_matches, relevant_tables) ==
    IF relevant_tables = << >>
    THEN IF all_matches # << >>
         THEN [kind |-> "no_sufficient_relevance",
               threshold |-> MinRelevanceThreshold,
               best_match |-> all_matches[1].full_name,
               relevance_score |-> all_matches[1].relevance_score]
         ELSE [kind |-> "no_relevant_tables"]
    ELSE [kind |-> "agent",
          tables_context |->
              [i \in 1..Len(relevant_tables) |->
                  [rank |-> relevant_tables[i].rank,
                   connector_type |-> relevant_tables[i].connector_type,
                   full_name |-> relevant_tables[i].full_name,
                   relevance_score |-> relevant_tables[i].relevance_score]]]

\* run_smart_dq_check(query, top_k_tables): the two searches and the output.
run_smart_dq_check(settings, collection, distance, query, top_k_tables) ==
    LET all_matches ==
            search_tables(settings, collection, distance, query, AllMatchesTopK, 0).results
        found == search_tables(settings, collection, distance, query, top_k_tables,
                               MinRelevanceThreshold)
    IN  [query |-> query,
         top_k |-> top_k_tables,
         min_relevance |-> MinRelevanceThreshold,
         relevant_tables |-> found.relevant_tables,
         results |-> found.results,
         all_matches |-> all_matches,
         output |-> SmartOutput(all_matches, found.results)]

RunSmartDqCheck ==
    /\ search.call = NoCall
    /\ \E query \in Queries, top_k_tables \in 1..MaxTopK,
          distance \in [1..Len(search.collection.docs) -> Distances] :
          search' = [search EXCEPT !.call =
                        run_smart_dq_check(search.settings, search.collection, distance,
                                           query, top_k_tables)]
    /\ last_op' = "run_smart_dq_check"
    /\ UNCHANGED <<db, reachable, entry, pc, checks, idx, check_results, assessment,
                   executed, loads, last_output, now>>

SearchNext ==
    \/ SearchTables
    \/ RunSmartDqCheck

SpecSearch == InitSearch /\ [][SearchNext]_vars

-----------------------------------------------------------------------------
(* Properties of the assessment.                                           *)

\* C1: in every assessment built by create_assessment_from_results, directly
\* or at the end of a run, passed_checks + failed_checks + error_checks is
\* the number of entries of check_results, which is metadata.total_checks.
C1_EveryCheckInOneBucket ==
    assessment # NoAssessment =>
        /\ assessment.summary.passed_checks + assessment.summary.failed_checks
               + assessment.summary.error_checks = Len(assessment.check_results)
        /\ assessment.metadata.total_checks = Len(assessment.check_results)

\* An assessment of two pre-computed results, one failed and one in error.
C1_Witness ==
    /\ assessment # NoAssessment
    /\ entry = "create_assessment_from_results"
    /\ assessment.summary.failed_checks = 1
    /\ assessment.summary.error_checks = 1
    /\ assessment.metadata.total_checks = 2

\* The results the named checks produce on the data, as a caller of
\* create_assessment_from_results collects them: one entry per check name.
RECURSIVE ResultsOfChecks(_, _, _)
ResultsOfChecks(names, frame, ok) ==
    IF names = << >> THEN EmptyDict
    ELSE LET rest == ResultsOfChecks(SubSeq(names, 1, Len(names) - 1), frame, ok)
             check_name == names[Len(names)]
         IN  IF check_name \in AvailableCheckNames
             THEN DictSet(rest, check_name, CallCheck(check_name, frame, ok).value)
             ELSE rest

\* C2: the assessment a run returns has the summary and the recommendations
\* of create_assessment_from_results on the results the same checks produce
\* on the same data.
C2_DualEntryEquivalence ==
    [][(pc = "running" /\ pc' = "complete") =>
          LET direct == create_assessment_from_results(
                            ResultsOfChecks(checks, db, reachable), now)
          IN  /\ assessment'.summary = direct.summary
              /\ assessment'.recommendations = direct.recommendations]_vars

\* A run of run_full_assessment that returned an assessment with a failed
\* check and recommendations.
C2_Witness ==
    /\ pc = "complete"
    /\ entry = "run_full_assessment"
    /\ last_op = "run_full_assessment"
    /\ Len(assessment.check_results) >= 2
    /\ assessment.summary.failed_checks >= 1
    /\ assessment.recommendations # << >>

\* C3: in a run every check function is invoked at most once, and when
\* the loop is over every named check that exists has been executed once
\* and has its entry.
C3_EachNamedCheckOnce ==
    /\ \A n \in AvailableCheckNames : executed[n] <= 1
    /\ (pc = "running" /\ idx > Len(checks)) =>
          \A i \in 1..Len(checks) :
              checks[i] \in AvailableCheckNames =>
                  /\ DictHas(check_results, checks[i])
                  /\ executed[checks[i]] = 1

OpsOnResults ==
    {"create_assessment_from_results", "generate_markdown_report", "generate_html_report",
     "generate_json_report", "save_report", "generate_report_from_assessment_results",
     "save_report_from_assessment_results"}

\* C4: create_assessment_from_results, the three generate_*_report, save_report
\* and the two *_from_assessment_results tools execute no check and load no
\* data; on a complete assessment they leave it complete, with the same
\* check_results, summary and recommendations.
C4_NoReexecution ==
    [][last_op' \in OpsOnResults =>
          /\ executed' = executed
          /\ loads' = loads
          /\ pc = "complete" =>
                /\ pc' = "complete"
                /\ assessment'.check_results = assessment.check_results
                /\ assessment'.summary = assessment.summary
                /\ assessment'.recommendations = assessment.recommendations]_vars

\* A report tool answered on the assessment of a run that executed checks.
C4_Witness ==
    /\ pc = "complete"
    /\ last_op = "generate_report_from_assessment_results"
    /\ last_output.status = "success"
    /\ executed["duplicates"] = 1
    /\ loads >= 1

\* C5: run_full_assessment is never left by the exception of a check: the
\* loop goes on to the sibling checks.
C5_RunNeverAborts == ~(entry = "run_full_assessment" /\ pc = "raised")

\* The frame the checks of the call in progress compute on.
LoadedFrame == load_data_by_id(db, reachable)

\* C6: a check whose computation raises returns a result of status 'error',
\* counted in error_checks, and lets no exception through.
C6_ChecksReturnErrorStatus ==
    /\ pc \notin {"raised", "tool_error"}
    /\ pc = "running" =>
          \A i \in 1..Len(check_results) :
              check_results[i].name \in LoadedFrame.raises =>
                  /\ check_results[i].result.status = "error"
                  /\ Bucket(check_results[i].name, check_results[i].result) = "error_checks"

\* C7: when the data source cannot be reached, the result of every check of
\* the call has status 'error' and carries no metrics.
C7_LoadFailureIsCheckError ==
    (pc = "running" /\ ~reachable) =>
        \A i \in 1..Len(check_results) :
            /\ check_results[i].result.status = "error"
            /\ "total_rows" \notin DOMAIN check_results[i].result

\* C8: on a loaded dataset check_dataset_duplicates returns the number of
\* rows, the number of rows minus the number of distinct rows, and status
\* 'success' whether or not there are duplicates.
C8_DuplicatesStatusSuccess ==
    (pc = "running" /\ reachable /\ DictHas(check_results, "duplicates")) =>
        LET result == DictGet(check_results, "duplicates")
        IN  /\ result.total_rows = Len(db.rows)
            /\ result.duplicate_qty = Len(db.rows) - Cardinality(Range(db.rows))
            /\ result.status = "success"

-----------------------------------------------------------------------------
(* Properties of the table search.                                         *)

Called == search.call # NoCall

\* C9: every hit search_tables returns has a relevance_score between 0 and 1.
C9_RelevanceWithinUnitInterval ==
    Called =>
        \A i \in 1..Len(search.call.results) :
            /\ 0 <= search.call.results[i].relevance_score
            /\ search.call.results[i].relevance_score <= 100

\* The query tokens of length >= 3 that occur in the bare table name.
TokenMatches(query, table_name) ==
    LET tokens == Split(Lower(query), {" "})
    IN  Cardinality({ i \in 1..Len(tokens) :
                        Len(tokens[i]) >= 3 /\ Contains(Lower(table_name), tokens[i]) })

\* C10: the boosted score of every candidate is min(raw similarity + 0.30 if
\* its connector is the one inferred from the query + 0.20 for every query
\* token of length >= 3 found in its table name, 1.0); a candidate of raw
\* similarity 0.40 with the connector boost and one table-name match scores
\* 0.90 and stands before an unboosted candidate of raw similarity 0.85.
C10_BoostedScore ==
    Called =>
        LET hits == search.call.relevant_tables
        IN  /\ \A i \in 1..Len(hits) :
                  hits[i].relevance_score =
                      Min(hits[i].original_relevance
                              + (IF hits[i].detected_db # None
                                    /\ hits[i].connector_type = hits[i].detected_db
                                 THEN 30 ELSE 0)
                              + 20 * TokenMatches(search.call.query, hits[i].table_name),
                          100)
            /\ \A i, j \in 1..Len(hits) :
                  ( /\ hits[i].original_relevance = 40
                    /\ hits[i].boosted
                    /\ TokenMatches(search.call.query, hits[i].table_name) = 1
                    /\ hits[j].original_relevance = 85
                    /\ ~hits[j].boosted
                    /\ TokenMatches(search.call.query, hits[j].table_name) = 0 )
                  => hits[i].relevance_score = 90 /\ i < j

\* The example of the claim: the query names postgres and the orders table;
\* the postgres table at distance 0.60 is returned first with 0.90, before
\* the snowflake table at distance 0.15 with 0.85.
C10_Witness ==
    /\ Called
    /\ Contains(Lower(search.call.query), Postgres)
    /\ Len(search.call.results) >= 2
    /\ search.call.results[1].original_relevance = 40
    /\ search.call.results[1].boosted
    /\ search.call.results[1].table_boost = 20
    /\ search.call.results[1].relevance_score = 90
    /\ search.call.results[1].rank = 1
    /\ search.call.results[2].original_relevance = 85
    /\ ~search.call.results[2].boosted
    /\ search.call.results[2].table_boost = 0
    /\ search.call.results[2].relevance_score = 85

\* C11: the list search_tables returns holds only hits of boosted score >=
\* min_relevance, is in descending order of boosted score, has at most top_k
\* entries, and its ranks are 1, 2, ..., n in list order.
C11_FilteredSortedRanked ==
    Called =>
        LET results == search.call.results
        IN  /\ \A i \in 1..Len(results) :
                  /\ results[i].relevance_score >= search.call.min_relevance
                  /\ results[i].rank = i
            /\ \A i \in 1..(Len(results) - 1) :
                  results[i].relevance_score >= results[i + 1].relevance_score
            /\ Len(results) <= search.call.top_k

\* Three candidates: the boosts put another one than the nearest first, one
\* is under the threshold, and of the two left top_k = 1 keeps the first.
C11_Witness ==
    /\ Called
    /\ Len(search.call.relevant_tables) = 3
    /\ search.call.relevant_tables[1].rank # 1
    /\ \E i \in 1..3 :
          search.call.relevant_tables[i].relevance_score < search.call.min_relevance
    /\ Cardinality({ i \in 1..3 : search.call.relevant_tables[i].relevance_score
                                    >= search.call.min_relevance }) = 2
    /\ search.call.top_k = 1
    /\ Len(search.call.results) = 1
    /\ search.call.results[1].rank = 1

SmartCalled == Called /\ last_op = "run_smart_dq_check"

\* C12: when the index holds at least one table and no hit reaches the
\* threshold, the output of run_smart_dq_check names the best available
\* match and its score.
C12_BestMatchReported ==
    ( /\ SmartCalled
      /\ search.collection.exists
      /\ Len(search.collection.docs) >= 1
      /\ search.call.results = << >> )
    => /\ search.call.output.kind = "no_sufficient_relevance"
       /\ \E i \in 1..Len(search.collection.docs) :
             search.call.output.best_match = search.collection.docs[i].full_name

-----------------------------------------------------------------------------
(* schema_indexer.py: build_schema_index, step by step, and a search by    *)
(* another process while it runs.  The build and the search each open      *)
(* their own client on the same persistent collection.                     *)

MaxSchemas == 2

\* What discover_all_table_metadata finds in a schema.
PublicSchema ==
    [schema |-> "public",
     tables |-> << [table_name |-> OrdersDoc.table_name, full_name |-> OrdersDoc.full_name],
                   [table_name |-> LineItemsDoc.table_name,
                    full_name |-> LineItemsDoc.full_name] >>]

SalesSchema ==
    [schema |-> "sales",
     tables |-> << [table_name |-> CustomersDoc.table_name,
                    full_name |-> CustomersDoc.full_name] >>]

ArchiveSchema == [schema |-> "archive", tables |-> << >>]

SchemaLists == SeqsUpTo({PublicSchema, SalesSchema, ArchiveSchema}, MaxSchemas)

\* metadatas of the documents of one schema.
Metadatas(discovered, connector_type) ==
    [i \in 1..Len(discovered.tables) |->
        [table_name |-> discovered.tables[i].table_name,
         full_name |-> discovered.tables[i].full_name,
         connector_type |-> connector_type,
         schema |-> discovered.schema]]

\* The documents a build adds, schema after schema.
RECURSIVE AllMetadatas(_, _)
AllMetadatas(schemas, connector_type) ==
    IF schemas = << >> THEN << >>
    ELSE Metadatas(schemas[1], connector_type) \o AllMetadatas(Tail(schemas), connector_type)

NoBuild == [pc |-> "idle"]

InitIndex ==
    /\ db = NoFrame
    /\ reachable = TRUE
    /\ entry = "none"
    /\ pc = "idle"
    /\ checks = << >>
    /\ idx = 1
    /\ check_results = EmptyDict
    /\ assessment = NoAssessment
    /\ executed = [n \in AvailableCheckNames |-> 0]
    /\ loads = 0
    /\ last_op = "init"
    /\ last_output = NoOutput
    /\ now = 0
    /\ search \in { [settings |-> NoSettings, collection |-> collection, call |-> NoCall,
                     build |-> NoBuild] : collection \in Collections }

IndexStep(op, next) ==
    /\ search' = next
    /\ last_op' = op
    /\ UNCHANGED <<db, reachable, entry, pc, checks, idx, check_results, assessment,
                   executed, loads, last_output, now>>

\* _get_all_schemas: the schemas of the database, ordered by name.
AllSchemas == <<ArchiveSchema, PublicSchema, SalesSchema>>

\* The schema of the connection, indexed when schemas_to_index is [None].
AmbientSchema == [schema |-> "default", tables |-> PublicSchema.tables]

\* The discovery section of settings.yaml for the connector.
DiscoveryConfigs ==
    { [auto_discover_schemas |-> auto, default_schemas |-> default] :
        auto \in BOOLEAN, default \in {<< >>, <<SalesSchema>>} }

\* schemas_to_index, from the arguments (an empty list stands for None) and
\* the configuration.
SchemasToIndex(schemas, auto_discover_schemas, config) ==
    IF auto_discover_schemas = "True"
       \/ (auto_discover_schemas = "None" /\ config.auto_discover_schemas)
    THEN AllSchemas
    ELSE IF schemas # << >> \/ config.default_schemas # << >>
    THEN IF schemas # << >> THEN schemas ELSE config.default_schemas
    ELSE <<AmbientSchema>>

\* build_schema_index(schemas, auto_discover_schemas, recreate) is called.
StartBuild ==
    /\ search.build.pc = "idle"
    /\ \E schemas \in SchemaLists, auto_discover_schemas \in {"None", "True", "False"},
          config \in DiscoveryConfigs, recreate \in BOOLEAN :
          IndexStep("build_schema_index",
                    [search EXCEPT !.build =
                        [pc |-> "discover",
                         connector_type |-> "postgres",
                         recreate |-> recreate,
                         requested |-> schemas,
                         schemas |-> SchemasToIndex(schemas, auto_discover_schemas, config),
                         i |-> 1,
                         previous |-> search.collection]])

\* The metadata of the i-th schema is discovered; a schema without tables
\* is passed over.
DiscoverSchema ==
    /\ search.build.pc = "discover"
    /\ search.build.i <= Len(search.build.schemas)
    /\ IndexStep("build_schema_index",
                 IF search.build.schemas[search.build.i].tables = << >>
                 THEN [search EXCEPT !.build.i = @ + 1]
                 ELSE [search EXCEPT !.build.pc =
                          IF search.build.recreate /\ search.build.i = 1
                          THEN "delete" ELSE "create"])

\* client.delete_collection(SCHEMA_COLLECTION_NAME)
DeleteCollection ==
    /\ search.build.pc = "delete"
    /\ IndexStep("build_schema_index",
                 [search EXCEPT !.collection = NoCollection, !.build.pc = "create"])

\* Chroma.from_texts: the collection is fetched or created,
CreateCollection ==
    /\ search.build.pc = "create"
    /\ IndexStep("build_schema_index",
                 [search EXCEPT !.collection.exists = TRUE, !.build.pc = "add"])

\* and the documents of the schema are added to it.
AddTexts ==
    /\ search.build.pc = "add"
    /\ IndexStep("build_schema_index",
                 [search EXCEPT
                     !.collection.docs =
                         @ \o Metadatas(search.build.schemas[search.build.i],
                                        search.build.connector_type),
                     !.build.i = @ + 1,
                     !.build.pc = "discover"])

FinishBuild ==
    /\ search.build.pc = "discover"
    /\ search.build.i > Len(search.build.schemas)
    /\ IndexStep("build_schema_index", [search EXCEPT !.build.pc = "done"])

Building == search.build.pc \in {"discover", "delete", "create", "add"}

\* search_tables by another process while the build runs; observed is the
\* collection its client finds.
SearchTablesDuringBuild ==
    /\ Building
    /\ search.call = NoCall
    /\ \E d \in Distances :
          LET distance == [i \in 1..Len(search.collection.docs) |-> d]
              found == search_tables(search.settings, search.collection, distance,
                                     Postgres, MaxTopK, 0)
          IN  IndexStep("search_tables",
                        [search EXCEPT !.call =
                            [query |-> Postgres,
                             top_k |-> MaxTopK,
                             min_relevance |-> 0,
                             relevant_tables |-> found.relevant_tables,
                             results |-> found.results,
                             observed |-> search.collection]])

IndexNext ==
    \/ StartBuild
    \/ DiscoverSchema
    \/ DeleteCollection
    \/ CreateCollection
    \/ AddTexts
    \/ FinishBuild
    \/ SearchTablesDuringBuild

SpecIndex == InitIndex /\ [][IndexNext]_vars

\* The collection a build with recreate is to leave.
NewCollection ==
    [exists |-> TRUE,
     docs |-> AllMetadatas(search.build.schemas, search.build.connector_type)]

\* C13: when build_schema_index(recreate=True) is over, the collection holds
\* the documents this build discovered and no document indexed before.
C13_RecreateReplacesCollection ==
    (search.build.pc = "done" /\ search.build.recreate /\ search.build.schemas # << >>) =>
        search.collection.docs = NewCollection.docs

\* C14: a search that runs during build_schema_index(recreate=True) finds the
\* whole collection of before the build or the whole new one.
C14_SearchSeesWholeCollection ==
    (Called /\ search.build.recreate) =>
        \/ search.call.observed = search.build.previous
        \/ search.call.observed = NewCollection

-----------------------------------------------------------------------------
(* Properties of the reports.                                              *)

Assessed == assessment # NoAssessment

\* A figure as a report section or a stored result shows it, if it does.
ShownFigure(body, field) == IF field \in DOMAIN body THEN <<body[field]>> ELSE << >>

ShownPercentages(body) ==
    IF "null_lines" \in DOMAIN body
    THEN [i \in 1..Len(body.null_lines) |-> body.null_lines[i].null_percentage]
    ELSE << >>

StoredPercentages(result) ==
    IF "null_analysis" \in DOMAIN result
    THEN [i \in 1..Len(result.null_analysis) |-> result.null_analysis[i].null_percentage]
    ELSE << >>

\* C15: the Markdown, HTML and JSON reports of one assessment show the same
\* total_rows, duplicate_qty and null percentages, those the assessment
\* stores, whatever the status of each check.
C15_FormatsShowStoredFigures ==
    Assessed =>
        LET md == render_markdown_template(assessment, now)
            html == render_html_template(assessment, now)
            js == generate_json_report(assessment)
        IN  (~md.raised /\ ~html.raised) =>
                \A i \in 1..Len(assessment.check_results) :
                    LET stored == assessment.check_results[i].result
                        shown == { md.value.sections[i].body, html.value.sections[i].body }
                        json == js.value.content.check_results[i].result
                    IN  /\ \A f \in {"total_rows", "duplicate_qty"} :
                              /\ \A body \in shown : ShownFigure(body, f) = ShownFigure(stored, f)
                              /\ ShownFigure(json, f) = ShownFigure(stored, f)
                        /\ \A body \in shown : ShownPercentages(body) = StoredPercentages(stored)
                        /\ StoredPercentages(json) = StoredPercentages(stored)

\* C16: rendering one assessment in one format at two moments gives the same
\* report; the time of rendering leaves no trace in it.
C16_RenderIdempotent ==
    [][(Assessed /\ assessment' = assessment) =>
          \A format \in KnownFormats :
              Render(assessment, format, now) = Render(assessment', format, now')]_vars

RenderOps == {"generate_markdown_report", "generate_html_report", "generate_json_report"}

-----------------------------------------------------------------------------
(* Properties of the recommendations and of the null analysis.             *)

RemoveDuplicates(a) ==
    SelectSeq(a.recommendations, LAMBDA rec : rec.title = "Remove Duplicate Records")

\* C18: an assessment whose duplicates result reports duplicate_qty > 0
\* recommends 'Remove Duplicate Records', High above 1000 duplicates and
\* Medium otherwise; one that reports 0 duplicates does not.
C18_DuplicatesRecommended ==
    Assessed =>
        \A i \in 1..Len(assessment.check_results) :
            LET result == assessment.check_results[i].result
            IN  (assessment.check_results[i].name = "duplicates"
                 /\ "duplicate_qty" \in DOMAIN result) =>
                    IF result.duplicate_qty > 0
                    THEN /\ Len(RemoveDuplicates(assessment)) = 1
                         /\ RemoveDuplicates(assessment)[1].priority =
                                IF result.duplicate_qty > 1000 THEN "High" ELSE "Medium"
                    ELSE RemoveDuplicates(assessment) = << >>

\* The recommendations in the order the advisor appends them.
AppendedRecommendations(results) ==
    DuplicateRecommendations(results) \o NullRecommendations(results)
        \o StatsRecommendations(results) \o ErrorRecommendations(results)
        \o PassRateRecommendations(results)

WithPriority(recs, p) == SelectSeq(recs, LAMBDA rec : rec.priority = p)

\* C19: the recommendations come High first, then Medium, then Low, and
\* those of one priority keep the order in which they were appended.
C19_OrderedByPriorityStable ==
    Assessed =>
        LET recs == assessment.recommendations
        IN  /\ \A i, j \in 1..Len(recs) :
                  i < j => PriorityOrder(recs[i].priority) <= PriorityOrder(recs[j].priority)
            /\ \A p \in {"High", "Medium", "Low"} :
                  WithPriority(recs, p) =
                      WithPriority(AppendedRecommendations(assessment.check_results), p)

C19_Witness ==
    /\ Assessed
    /\ assessment.recommendations # AppendedRecommendations(assessment.check_results)
    /\ Len(WithPriority(assessment.recommendations, "High")) >= 2
    /\ WithPriority(assessment.recommendations, "Medium") # << >>

Missing(cell) == cell \in {NaN, "", "NULL", "null", "<NA>"}

NullValuesReturned ==
    /\ pc = "running"
    /\ DictHas(check_results, "null_values")
    /\ DictGet(check_results, "null_values").status = "success"

-----------------------------------------------------------------------------
(* Further properties of the search.                                       *)

\* C21: a search before any index was built returns the empty list, and
\* run_smart_dq_check then answers with the message that asks for the
\* schema index to be built.
C21_MissingIndexIsEmptyResult ==
    (Called /\ ~search.collection.exists) =>
        /\ search.call.results = << >>
        /\ last_op = "run_smart_dq_check" =>
              search.call.output = [kind |-> "no_relevant_tables"]

C21_Witness ==
    /\ SmartCalled
    /\ ~search.collection.exists
    /\ search.settings # NoSettings
    /\ search.call.output.kind = "no_relevant_tables"

-----------------------------------------------------------------------------
(* schema_discovery.py: discover_all_table_metadata, one table at a time.  *)
(* What the data source answers while a table is described is drawn at     *)
(* each table: it is described, it is no longer listed, or a query raises. *)

MaxTables == 3

TableNames == {"orders", "customers", "line_items", "payments"}

TableLists ==
    { tables \in SeqsUpTo(TableNames, MaxTables) :
        \A i, j \in 1..Len(tables) : i # j => tables[i] # tables[j] }

DescribeOutcomes == {"described", "not_listed", "raises"}

\* create_table_metadata_document(table_name, ...): the document text, the
\* text 'Table ... not found' when the table is not in discover_tables any
\* more, or the exception of a catalog query.
create_table_metadata_document(table_name, outcome) ==
    IF outcome = "raises" THEN Raised
    ELSE IF outcome = "not_listed"
    THEN Returned([text |-> "not found", table |-> table_name])
    ELSE Returned([text |-> "description", table |-> table_name])

NoDiscovery == [pc |-> "idle"]

InitDiscovery ==
    /\ db = NoFrame
    /\ reachable = TRUE
    /\ entry = "none"
    /\ pc = "idle"
    /\ checks = << >>
    /\ idx = 1
    /\ check_results = EmptyDict
    /\ assessment = NoAssessment
    /\ executed = [n \in AvailableCheckNames |-> 0]
    /\ loads = 0
    /\ last_op = "init"
    /\ last_output = NoOutput
    /\ now = 0
    /\ search = NoDiscovery

DiscoveryStep(next) ==
    /\ search' = next
    /\ last_op' = "discover_all_table_metadata"
    /\ UNCHANGED <<db, reachable, entry, pc, checks, idx, check_results, assessment,
                   executed, loads, last_output, now>>

\* discover_all_table_metadata is called: the tables of the schema, cut to
\* max_tables when one is given (0 stands for None).
DiscoverTables ==
    /\ search.pc = "idle"
    /\ \E tables \in TableLists, max_tables \in 0..MaxTables :
          DiscoveryStep([pc |-> "loop",
                         tables |-> IF max_tables # 0 THEN Take(tables, max_tables)
                                    ELSE tables,
                         i |-> 1,
                         outcomes |-> << >>,
                         metadata_docs |-> << >>])

\* One turn of the loop: the document of tables[i] is appended, or the
\* exception is caught and the table passed over.
ProcessTable ==
    /\ search.pc = "loop"
    /\ search.i <= Len(search.tables)
    /\ \E outcome \in DescribeOutcomes :
          LET table_name == search.tables[search.i]
              metadata == create_table_metadata_document(table_name, outcome)
          IN  DiscoveryStep(
                  [search EXCEPT
                      !.i = @ + 1,
                      !.outcomes = Append(@, outcome),
                      !.metadata_docs =
                          IF metadata.raised THEN @
                          ELSE Append(@, [table_name |-> table_name,
                                          full_name |-> <<"stage_sales", "public", table_name>>,
                                          metadata |-> metadata.value])])

ReturnMetadataDocs ==
    /\ search.pc = "loop"
    /\ search.i > Len(search.tables)
    /\ DiscoveryStep([search EXCEPT !.pc = "done"])

DiscoveryNext ==
    \/ DiscoverTables
    \/ ProcessTable
    \/ ReturnMetadataDocs

SpecDiscovery == InitDiscovery /\ [][DiscoveryNext]_vars

\* The tables whose description succeeded, in discovery order.
DescribedTables ==
    LET kept == SelectSeq([k \in 1..Len(search.outcomes) |->
                             [table |-> search.tables[k], outcome |-> search.outcomes[k]]],
                          LAMBDA t : t.outcome = "described")
    IN  [k \in 1..Len(kept) |-> kept[k].table]

\* C22: discover_all_table_metadata returns one document for every table
\* whose description succeeded, in discovery order, and no document for a
\* table that could not be described.
C22_OnlyDescribedTables ==
    search.pc = "done" =>
        /\ [k \in 1..Len(search.metadata_docs) |-> search.metadata_docs[k].table_name]
               = DescribedTables
        /\ \A k \in 1..Len(search.metadata_docs) :
               search.metadata_docs[k].metadata.text = "description"

-----------------------------------------------------------------------------
(* Further properties of the assessment.                                   *)

\* C23: run_comprehensive_dq_assessment with the three checks, and every
\* report generated from its results afterwards, connect to the data
\* source and load the dataset once in all.
C23_LoadedOnce ==
    (/\ entry = "run_comprehensive_dq_assessment"
     /\ pc = "complete"
     /\ DictKeys(assessment.check_results) = AvailableChecks) =>
        loads = 1

-----------------------------------------------------------------------------
(* The precedence of the connector preference.                             *)

ExplicitConnector(query) ==
    IF Contains(Lower(query), Postgres) THEN "postgres"
    ELSE IF Contains(Lower(query), Snowflake) THEN "snowflake"
    ELSE None

EnvironmentKeywords == Range(StagingKeywords) \cup Range(ProductionKeywords)

\* The connector the configuration gives to the environment keywords.
EnvironmentMappings == FoldMappings(EmptyDict, search.settings, TRUE)

\* The mapping learned from the first segment of the indexed full names.
LearnedMappings == FoldMappings(EmptyDict, search.collection.docs, FALSE)

\* C24: a connector named in the query is the preferred one; without one,
\* the connector of an environment keyword of the query is, also when the
\* mapping learned from the indexed tables points to another connector.
C24_PreferencePrecedence ==
    (Called /\ search.call.relevant_tables # << >>) =>
        LET query == search.call.query
            detected_db == search.call.relevant_tables[1].detected_db
        IN  IF ExplicitConnector(query) # None
            THEN detected_db = ExplicitConnector(query)
            ELSE \A keyword \in EnvironmentKeywords :
                    (/\ keyword \in Range(Split(Lower(query), {"_", " "}))
                     /\ DictHas(EnvironmentMappings, keyword)) =>
                        detected_db = DictGet(EnvironmentMappings, keyword)

\* C25: the similarity 1 - distance is brought into [0,1] before the boosts:
\* every hit has an original_relevance between 0 and 1 and a score that is
\* the boosted value of it, whatever the distance.
C25_SimilarityClamped ==
    Called =>
        \A i \in 1..Len(search.call.relevant_tables) :
            LET hit == search.call.relevant_tables[i]
            IN  /\ 0 <= hit.original_relevance
                /\ hit.original_relevance <= 100
                /\ hit.relevance_score =
                       BoostedRelevance(hit.original_relevance,
                                        hit.detected_db # None
                                            /\ hit.connector_type = hit.detected_db,
                                        hit.table_boost)

-----------------------------------------------------------------------------
(* Further properties of the index.                                        *)

\* C26: when the caller passes a non-empty list of schemas, the schemas
\* indexed are those of the list, whatever auto_discover_schemas and
\* default_schemas the configuration holds.
C26_ExplicitSchemasIndexed ==
    (search.build.pc # "idle" /\ search.build.requested # << >>) =>
        search.build.schemas = search.build.requested

-----------------------------------------------------------------------------
(* report_processor.py: process_comprehensive_report, on the response of   *)
(* run_smart_dq_check.  Of the response text the processor reads whether   *)
(* it holds one of the two 'no table' messages, whether a dataset id can   *)
(* be found in it and whether it carries the results of the checks.        *)

SmartResponses ==
    { [signal |-> signal, names_dataset |-> FALSE, carries_results |-> FALSE] :
        signal \in {"no_sufficient_relevance", "no_relevant_tables"} }
    \cup
    { [signal |-> "agent", names_dataset |-> names, carries_results |-> carries] :
        names \in BOOLEAN, carries \in BOOLEAN }

\* validate_smart_dq_response
validate_smart_dq_response(response) ==
    response.signal \notin {"no_sufficient_relevance", "no_relevant_tables"}

ReportFormats == <<"markdown", "html", "json">>

\* generate_all_reports: the three files, written one after the other.
generate_all_reports(a, clock) ==
    IF \E i \in 1..Len(ReportFormats) : Render(a, ReportFormats[i], clock).raised
    THEN Raised
    ELSE Returned(ReportFormats)

InitProcessor ==
    /\ db = NoFrame
    /\ reachable = TRUE
    /\ entry = "none"
    /\ pc = "idle"
    /\ checks = << >>
    /\ idx = 1
    /\ check_results = EmptyDict
    /\ assessment = NoAssessment
    /\ executed = [n \in AvailableCheckNames |-> 0]
    /\ loads = 0
    /\ last_op = "init"
    /\ last_output = NoOutput
    /\ now = 0
    /\ search = NoSearch

Failed(reason) == [status |-> "failed", reason |-> reason, files_generated |-> << >>]

\* process_comprehensive_report(comprehensive_report) is called; step 1
\* validates the response.
ValidateSmartDqResponse ==
    /\ pc = "idle"
    /\ \E source \in Sources, response \in SmartResponses :
          /\ db' = source.frame
          /\ reachable' = source.ok
          /\ search' = [response |-> response]
          /\ IF validate_smart_dq_response(response)
             THEN pc' = "validated" /\ last_output' = last_output
             ELSE pc' = "failed" /\ last_output' = Failed("low_relevance")
    /\ entry' = "process_comprehensive_report"
    /\ last_op' = "process_comprehensive_report"
    /\ UNCHANGED <<checks, idx, check_results, assessment, executed, loads, now>>

\* Step 2: extract_dataset_metadata.
ExtractDatasetMetadata ==
    /\ pc = "validated"
    /\ IF search.response.names_dataset
       THEN pc' = "extracted" /\ last_output' = last_output
       ELSE pc' = "failed" /\ last_output' = Failed("metadata_extraction_failed")
    /\ UNCHANGED <<db, reachable, entry, checks, idx, check_results, assessment,
                   executed, loads, last_op, now, search>>

\* Step 4: self.generator.run_full_assessment(dataset_id, connector_type),
\* whatever the response carries.
RunAssessmentForReport ==
    /\ pc = "extracted"
    /\ LET run == RunAll(AvailableChecks, db, reachable)
       IN  /\ executed' = [n \in AvailableCheckNames |-> executed[n] + Count(run.ran, n)]
           /\ loads' = loads + Len(run.ran)
           /\ check_results' = run.results
           /\ IF run.raised
              THEN /\ pc' = "raised"
                   /\ assessment' = assessment
                   /\ last_output' = [status |-> "raised"]
              ELSE /\ pc' = "assessed"
                   /\ assessment' = create_assessment_from_results(run.results, now)
                   /\ last_output' = last_output
    /\ UNCHANGED <<db, reachable, entry, checks, idx, last_op, now, search>>

\* Step 6: generate_all_reports and the return value.
GenerateAllReports ==
    /\ pc = "assessed"
    /\ LET files == generate_all_reports(assessment, now)
       IN  IF files.raised
           THEN pc' = "raised" /\ last_output' = [status |-> "raised"]
           ELSE /\ pc' = "processed"
                /\ last_output' = [status |-> "success", files_generated |-> files.value]
    /\ UNCHANGED <<db, reachable, entry, checks, idx, check_results, assessment,
                   executed, loads, last_op, now, search>>

ProcessorNext ==
    \/ ValidateSmartDqResponse
    \/ ExtractDatasetMetadata
    \/ RunAssessmentForReport
    \/ GenerateAllReports

SpecProcessor == InitProcessor /\ [][ProcessorNext]_vars

NoCheckExecuted == loads = 0 /\ \A n \in AvailableCheckNames : executed[n] = 0

\* C27: process_comprehensive_report returns 'failed' with no file and no
\* check executed when the response signals that no table was found or
\* names no dataset; otherwise it returns 'success' with the markdown, html
\* and json files, and executes no check when the response carries the
\* results.
C27_ChecksOnlyWhenNeeded ==
    pc \in {"failed", "processed"} =>
        IF ~validate_smart_dq_response(search.response) \/ ~search.response.names_dataset
        THEN /\ last_output.status = "failed"
             /\ last_output.files_generated = << >>
             /\ NoCheckExecuted
        ELSE /\ last_output.status = "success"
             /\ last_output.files_generated = ReportFormats
             /\ search.response.carries_results => NoCheckExecuted

-----------------------------------------------------------------------------
(* The status texts of the reports and the summary.                        *)

StatusText(bucket) ==
    IF bucket = "passed_checks" THEN "PASS"
    ELSE IF bucket = "failed_checks" THEN "FAIL"
    ELSE "ERROR"

\* C28: the status the Markdown report and the HTML report show for a
\* check is the bucket the summary counted it in: PASS for passed, FAIL
\* for failed, ERROR for errored.
C28_ShownStatusIsBucket ==
    Assessed =>
        LET md == render_markdown_template(assessment, now)
            html == render_html_template(assessment, now)
        IN  (~md.raised /\ ~html.raised) =>
                \A i \in 1..Len(assessment.check_results) :
                    LET entry_i == assessment.check_results[i]
                        status_text == StatusText(Bucket(entry_i.name, entry_i.result))
                    IN  entry_i.name \in AvailableCheckNames =>
                            /\ ShownFigure(md.value.sections[i].body, "status_text") = << status_text >>
                            /\ ShownFigure(html.value.sections[i].body, "status_text") = << status_text >>

\* C29: the number of passed checks behind the pass-rate recommendations
\* is summary.passed_checks of the assessment of the same results.
C29_AdvisorCountsAsSummary ==
    Assessed =>
        AdvisorPassedChecks(assessment.check_results) = assessment.summary.passed_checks

-----------------------------------------------------------------------------
(* The documents of the collection.                                        *)

\* C30: when a build is over the collection holds at most one document for
\* a table, a table being a connector_type and a full_name.
C30_OneDocumentPerTable ==
    search.build.pc = "done" =>
        \A i, j \in 1..Len(search.collection.docs) :
            (/\ search.collection.docs[i].connector_type =
                    search.collection.docs[j].connector_type
             /\ search.collection.docs[i].full_name = search.collection.docs[j].full_name)
                => i = j

=============================================================================
